---- MODULE Spec2Model ----
(***************************************************************************)
(* Model of resnet/models/nnlib.py: parameter declaration                  *)
(* (weight_variable, cnn, mlp), the batch-normalization state machines     *)
(* (batch_norm, batch_norm_mean_only) and the divisive-normalization       *)
(* kernels (div_norm_2d, div_norm_1d).                                     *)
(*                                                                         *)
(* A batch_norm call builds a dataflow graph; every later session run      *)
(* executes the operations its fetched outputs depend on, in any order     *)
(* the data and control dependencies allow.  SpecBN models those runs one  *)
(* operation at a time.  SpecPS models graph construction (the variable    *)
(* store).  SpecDN models the kernel construction of the divisive          *)
(* normalizers.                                                            *)
(*                                                                         *)
(* Real numbers are fixed-point integers: a value v is stored as v*Scale.  *)
(* Scale is chosen so that MaxSteps applications of the 0.9 decay and the  *)
(* default eps are exact.  An optional value (None in the source) is a     *)
(* sequence of length 0 or 1.                                              *)
(***************************************************************************)
EXTENDS Integers, Sequences, FiniteSets, TLC

VARIABLES
  \* ---- normalization sites at run time (SpecBN) ----
  emean,      \* site -> value of the variable "ema_mean"
  evar,       \* site -> value of the variable "ema_var" (batch_norm only)
  avg_mean,   \* site -> value of the shadow variable ema.average(batch_mean)
  avg_var,    \* site -> value of the shadow variable ema.average(batch_var)
  gamma,      \* optional scale, fixed when the graph is built
  beta,       \* optional shift, fixed when the graph is built
  run,        \* the training-mode session run in flight
  lastEval,   \* the most recent evaluation-mode run since the last training run
  rec,        \* history: the 0.9 recurrence started from batch_norm's initial ema values
  \* ---- variable store at graph construction (SpecPS) ----
  store,      \* full variable name -> declared parameter
  shadows,    \* number of shadow variables ema.apply has created
  last,       \* the most recent construction call and its outcome
  calls,      \* number of construction calls made
  \* ---- divisive-normalization kernels (SpecDN) ----
  dn          \* the most recent kernel construction

varsBN == <<emean, evar, avg_mean, avg_var, gamma, beta, run, lastEval, rec>>
varsPS == <<store, shadows, last, calls>>
varsDN == <<dn>>
vars == <<varsBN, varsPS, varsDN>>

(***************************************************************************)
(* Bounds and program constants                                            *)
(***************************************************************************)
MaxSteps == 2      \* training-mode runs per behaviour
MaxEvals == 2      \* consecutive evaluation-mode runs between training runs

DecayNum == 9      \* decay=0.9 is DecayNum / DecayDen
DecayDen == 10
EpsDen == 1000     \* eps=1e-3 is 1 / EpsDen

RECURSIVE Pow10(_)
Pow10(n) == IF n = 0 THEN 1 ELSE 10 * Pow10(n - 1)

Scale == Pow10(MaxSteps) * EpsDen
Eps == Scale \div EpsDen

\* Input batches x (n_out = 1): the values of one feature over the batch.
Batches == {<<0, 0>>, <<0, 2>>, <<2, 0>>, <<2, 2>>}
\* Values the default initializer of tf.get_variable may give ema_mean/ema_var.
InitVals == {0, Scale}
GammaVals == {<<>>, <<2>>}
BetaVals == {<<>>, <<1>>}

Sites == {"bn", "bnms"}
NoSite == "none"

(***************************************************************************)
(* Pure helpers of the normalizers                                         *)
(***************************************************************************)
RECURSIVE SumSeq(_)
SumSeq(s) == IF s = <<>> THEN 0 ELSE Head(s) + SumSeq(Tail(s))

SumSq(s) == SumSeq([i \in 1..Len(s) |-> s[i] * s[i]])

\* tf.reduce_mean(x, axes) / the mean of tf.nn.moments
ReduceMean(x) == (SumSeq(x) * Scale) \div Len(x)

\* the variance of tf.nn.moments: mean of the squared deviations
ReduceVar(x) ==
  ((Len(x) * SumSq(x) - SumSeq(x) * SumSeq(x)) * Scale) \div (Len(x) * Len(x))

\* assign_moving_average inside ema.apply:
\*   variable -= (1 - decay) * (variable - value)
AssignMovingAverage(variable, value) ==
  variable - ((variable - value) * (DecayDen - DecayNum)) \div DecayDen

\* The recurrence the claims state: ema <- 0.9*ema + 0.1*stat
DecayStep(ema, stat) == (DecayNum * ema + (DecayDen - DecayNum) * stat) \div DecayDen

\* tf.nn.batch_normalization(x, mean, var, beta, gamma, eps), element i is
\*   num / sqrt(den2) * scale + offset, kept as its four ingredients.
BatchNormalization(x, mean, var, off, sc) ==
  [i \in 1..Len(x) |->
     [num |-> x[i] * Scale - mean, den2 |-> var + Eps, scale |-> sc, offset |-> off]]

\* x - mean, then "normed *= gamma" and "normed += beta" when present
MeanOnlyNormed(x, mean, ga, be) ==
  [i \in 1..Len(x) |->
     LET centred == x[i] * Scale - mean
         scaled  == IF ga # <<>> THEN centred * ga[1] ELSE centred
     IN  IF be # <<>> THEN scaled + be[1] * Scale ELSE scaled]

(***************************************************************************)
(* The training-mode graph: operations and their dependencies              *)
(***************************************************************************)
\* Direct inputs (data and control) of each operation of a site's graph.
Deps(site, op) ==
  IF site = "bn"
  THEN CASE op = "avg_mean"    -> {}
         [] op = "avg_var"     -> {}
         [] op = "identity"    -> {"avg_mean", "avg_var"}
         [] op = "assign_mean" -> {}
         [] op = "assign_var"  -> {}
         [] op = "normed"      -> {"identity", "assign_mean", "assign_var"}
  ELSE CASE op = "avg_mean"    -> {}
         [] op = "identity"    -> {"avg_mean"}
         [] op = "assign_mean" -> {}
         [] op = "normed"      -> {"assign_mean"}

\* The operation that produces each returned output.
OutputOp(output) == IF output = "normed" THEN "normed" ELSE "identity"

RECURSIVE Closure(_, _)
Closure(site, ops) ==
  LET more == ops \cup UNION {Deps(site, o) : o \in ops}
  IN  IF more = ops THEN ops ELSE Closure(site, more)

\* What a session run of the fetched outputs executes.
Needed(site, fetch) == Closure(site, {OutputOp(f) : f \in fetch})

Fetches == {{"normed"}, {"mean"}, {"normed", "mean"}}

NoSnapshot == [emean |-> 0, evar |-> 0, avg_mean |-> 0, avg_var |-> 0]

Idle ==
  [site |-> NoSite, x |-> <<>>, fetch |-> {}, done |-> {},
   pre |-> NoSnapshot, normed |-> <<>>, mean |-> <<>>]

NoEval ==
  [site |-> NoSite, x |-> <<>>, normed |-> <<>>, mean |-> <<>>, n |-> 0, rep |-> FALSE]

Ready(op) ==
  /\ run.site # NoSite
  /\ op \in Needed(run.site, run.fetch) \ run.done
  /\ Deps(run.site, op) \subseteq run.done

BatchMean == ReduceMean(run.x)
BatchVar == ReduceVar(run.x)

Snapshot(site) ==
  [emean |-> emean[site], evar |-> IF site = "bn" THEN evar[site] ELSE 0,
   avg_mean |-> avg_mean[site], avg_var |-> IF site = "bn" THEN avg_var[site] ELSE 0]

(***************************************************************************)
(* SpecBN: session runs of the two normalization sites                     *)
(***************************************************************************)
BNInit ==
  /\ emean \in [Sites -> InitVals]
  /\ evar \in [{"bn"} -> InitVals]
  /\ avg_mean = [s \in Sites |-> 0]
  /\ avg_var = [s \in {"bn"} |-> 0]
  /\ gamma \in GammaVals
  /\ beta \in BetaVals
  /\ run = Idle
  /\ lastEval = NoEval
  /\ rec = [n |-> 0, nbn |-> 0, allNormed |-> TRUE,
            mean |-> emean["bn"], var |-> evar["bn"]]

\* A training-mode run starts: the caller feeds x and fetches some outputs.
StartTrain(site, x, fetch) ==
  /\ run.site = NoSite
  /\ rec.n < MaxSteps
  /\ run' = [Idle EXCEPT !.site = site, !.x = x, !.fetch = fetch,
                         !.pre = Snapshot(site)]
  /\ lastEval' = NoEval
  /\ rec' = IF site = "bn"
            THEN [n |-> rec.n + 1, nbn |-> rec.nbn + 1,
                  allNormed |-> rec.allNormed /\ "normed" \in fetch,
                  mean |-> DecayStep(rec.mean, ReduceMean(x)),
                  var |-> DecayStep(rec.var, ReduceVar(x))]
            ELSE [rec EXCEPT !.n = @ + 1]
  /\ UNCHANGED <<emean, evar, avg_mean, avg_var, gamma, beta, varsPS, varsDN>>

\* ema.apply: the moving-average update of the shadow of batch_mean
AvgMean ==
  /\ Ready("avg_mean")
  /\ avg_mean' = [avg_mean EXCEPT ![run.site] = AssignMovingAverage(@, BatchMean)]
  /\ run' = [run EXCEPT !.done = @ \cup {"avg_mean"}]
  /\ UNCHANGED <<emean, evar, avg_var, gamma, beta, lastEval, rec, varsPS, varsDN>>

\* ema.apply: the moving-average update of the shadow of batch_var
AvgVar ==
  /\ Ready("avg_var")
  /\ avg_var' = [avg_var EXCEPT ![run.site] = AssignMovingAverage(@, BatchVar)]
  /\ run' = [run EXCEPT !.done = @ \cup {"avg_var"}]
  /\ UNCHANGED <<emean, evar, avg_mean, gamma, beta, lastEval, rec, varsPS, varsDN>>

\* mean, var = tf.identity(batch_mean), tf.identity(batch_var), after ema.apply
Identity ==
  /\ Ready("identity")
  /\ run' = [run EXCEPT !.done = @ \cup {"identity"}, !.mean = <<BatchMean>>]
  /\ UNCHANGED <<emean, evar, avg_mean, avg_var, gamma, beta, lastEval, rec,
                 varsPS, varsDN>>

\* tf.assign(emean, emean_val): copies the shadow as it is when the op runs
AssignMean ==
  /\ Ready("assign_mean")
  /\ emean' = [emean EXCEPT ![run.site] = avg_mean[run.site]]
  /\ run' = [run EXCEPT !.done = @ \cup {"assign_mean"}]
  /\ UNCHANGED <<evar, avg_mean, avg_var, gamma, beta, lastEval, rec, varsPS, varsDN>>

\* tf.assign(evar, evar_val)
AssignVar ==
  /\ Ready("assign_var")
  /\ evar' = [evar EXCEPT ![run.site] = avg_var[run.site]]
  /\ run' = [run EXCEPT !.done = @ \cup {"assign_var"}]
  /\ UNCHANGED <<emean, avg_mean, avg_var, gamma, beta, lastEval, rec, varsPS, varsDN>>

\* The normalized output of the training branch.
TrainNormed ==
  IF run.site = "bn"
  THEN BatchNormalization(run.x, run.mean[1], BatchVar, beta, gamma)
  ELSE MeanOnlyNormed(run.x, BatchMean, gamma, beta)

Normed ==
  /\ Ready("normed")
  /\ run' = [run EXCEPT !.done = @ \cup {"normed"}, !.normed = TrainNormed]
  /\ UNCHANGED <<emean, evar, avg_mean, avg_var, gamma, beta, lastEval, rec,
                 varsPS, varsDN>>

\* The run hands its fetched outputs back to the caller.
Return ==
  /\ run.site # NoSite
  /\ Needed(run.site, run.fetch) \subseteq run.done
  /\ run' = Idle
  /\ UNCHANGED <<emean, evar, avg_mean, avg_var, gamma, beta, lastEval, rec,
                 varsPS, varsDN>>

\* The normalized output of the evaluation branch.
EvalNormed(site, x) ==
  IF site = "bn"
  THEN BatchNormalization(x, emean[site], evar[site], beta, gamma)
  ELSE MeanOnlyNormed(x, emean[site], gamma, beta)

EvalRecord(site, x) ==
  [site |-> site, x |-> x, normed |-> EvalNormed(site, x), mean |-> <<emean[site]>>,
   n |-> lastEval.n + 1, rep |-> lastEval.site = site /\ lastEval.x = x]

\* A mutation of the evaluation branch that also moves ema_mean towards the
\* statistics of x, as the training branch does.
EvalUpdating(site, x) ==
  /\ run.site = NoSite
  /\ lastEval.n < MaxEvals
  /\ lastEval' = EvalRecord(site, x)
  /\ emean' = [emean EXCEPT ![site] = AssignMovingAverage(@, ReduceMean(x))]
  /\ UNCHANGED <<evar, avg_mean, avg_var, gamma, beta, run, rec, varsPS, varsDN>>

\* An evaluation-mode run (is_training false) of either site, both outputs fetched.
Eval(site, x) ==
  /\ run.site = NoSite
  /\ lastEval.n < MaxEvals
  /\ lastEval' = EvalRecord(site, x)
  /\ UNCHANGED <<emean, evar, avg_mean, avg_var, gamma, beta, run, rec, varsPS, varsDN>>

NoCall == [fn |-> "none"]

PSIdle ==
  /\ store = <<>>
  /\ shadows = 0
  /\ last = NoCall
  /\ calls = 0

NoKernels == [fn |-> "none"]

DNIdle == dn = NoKernels

InitBN == BNInit /\ PSIdle /\ DNIdle

NextBN ==
  \/ \E site \in Sites, x \in Batches, fetch \in Fetches : StartTrain(site, x, fetch)
  \/ AvgMean
  \/ AvgVar
  \/ Identity
  \/ AssignMean
  \/ AssignVar
  \/ Normed
  \/ Return
  \/ \E site \in Sites, x \in Batches : Eval(site, x)

SpecBN == InitBN /\ [][NextBN]_vars

(***************************************************************************)
(* Claims about the normalization state                                    *)
(***************************************************************************)
\* C1: after N >= 1 successive training steps of batch_norm (each producing the
\* normalized output), ema_mean and ema_var equal the recurrence
\* ema <- 0.9*ema + 0.1*batch_stat applied N times to the values they held
\* before the first step.
C1_EmaIsRecurrence ==
  (run.site = NoSite /\ rec.nbn >= 1 /\ rec.allNormed)
    => (emean["bn"] = rec.mean /\ evar["bn"] = rec.var)

\* C2: in a training-mode batch_norm run, once the normalized output has been
\* produced the moving averages have been updated with this run's batch
\* statistics and ema_mean/ema_var hold the updated averages, and the output
\* was computed from the batch mean and variance.
C2_UpdateBeforeOutput ==
  (run.site = "bn" /\ "normed" \in run.done)
    => /\ avg_mean["bn"] = DecayStep(run.pre.avg_mean, BatchMean)
       /\ avg_var["bn"] = DecayStep(run.pre.avg_var, BatchVar)
       /\ emean["bn"] = avg_mean["bn"]
       /\ evar["bn"] = avg_var["bn"]
       /\ run.normed = BatchNormalization(run.x, BatchMean, BatchVar, beta, gamma)

\* C3: an evaluation-mode run of batch_norm or batch_norm_mean_only leaves
\* ema_mean and ema_var as they were, and an evaluation run repeated with the
\* same input returns the same outputs.
C3_EvalFrozen ==
  [][(lastEval'.n = lastEval.n + 1)
       => /\ emean' = emean
          /\ evar' = evar
          /\ (lastEval'.site = lastEval.site /\ lastEval'.x = lastEval.x)
               => (lastEval'.normed = lastEval.normed /\ lastEval'.mean = lastEval.mean)]_vars

\* C3 witness: after some training, an evaluation run was repeated with the same input.
C3_Witness == lastEval.rep /\ rec.n >= 1 /\ lastEval.n = 2

\* C4: every training-mode run of batch_norm_mean_only, whichever outputs are
\* fetched, leaves ema_mean = 0.9*ema_mean + 0.1*batch_mean, and its
\* normalized output (no gamma, no beta) is x minus the batch mean.
C4_MeanOnlyUpdates ==
  (run.site = "bnms" /\ Needed(run.site, run.fetch) \subseteq run.done)
    => /\ emean["bnms"] = DecayStep(run.pre.emean, BatchMean)
       /\ ("normed" \in run.fetch /\ gamma = <<>> /\ beta = <<>>)
            => run.normed = [i \in 1..Len(run.x) |-> run.x[i] * Scale - BatchMean]

(***************************************************************************)
(* SpecDN: the box-filter kernels of div_norm_2d and div_norm_1d           *)
(***************************************************************************)
MaxWindow == 3     \* largest window extent tried

RECURSIVE Prod(_)
\* np.prod(np.array(window))
Prod(s) == IF s = <<>> THEN 1 ELSE Head(s) * Prod(Tail(s))

\* The index tuples of a tensor of the given shape.
Positions(shape) ==
  {p \in [1..Len(shape) -> 1..MaxWindow] : \A k \in 1..Len(shape) : p[k] <= shape[k]}

\* tf.ones(shape)
Ones(shape) == [p \in Positions(shape) |-> 1]

\* tensor / scalar, element by element; a weight n/d is the pair <<n, d>>
Divide(t, d) == [p \in DOMAIN t |-> <<t[p], d>>]

\* A mutation of div_norm_2d that normalizes the suppression kernel by its own area.
DivNorm2dKernelsOwnArea(sum_window, sup_window) ==
  [w_sum |-> Divide(Ones(sum_window \o <<1, 1>>), Prod(sum_window)),
   w_sup |-> Divide(Ones(sup_window \o <<1, 1>>), Prod(sup_window))]

\* w_sum and w_sup of div_norm_2d
DivNorm2dKernels(sum_window, sup_window) ==
  [w_sum |-> Divide(Ones(sum_window \o <<1, 1>>), Prod(sum_window)),
   w_sup |-> Divide(Ones(sup_window \o <<1, 1>>), Prod(sum_window))]

\* w_sum and w_sup of div_norm_1d
DivNorm1dKernels(sum_window, sup_window) ==
  [w_sum |-> Divide(Ones(<<sum_window, 1, 1>>), sum_window),
   w_sup |-> Divide(Ones(<<sup_window, 1, 1>>), sup_window)]

Windows2d == {<<h, w>> : h \in 1..MaxWindow, w \in 1..MaxWindow}

DNInputs ==
  {[fn |-> "div_norm_2d", sum_window |-> a, sup_window |-> b, built |-> FALSE] :
      a \in Windows2d, b \in Windows2d}
  \cup
  {[fn |-> "div_norm_1d", sum_window |-> <<a>>, sup_window |-> <<b>>, built |-> FALSE] :
      a \in 1..MaxWindow, b \in 1..MaxWindow}

DivNorm2d ==
  /\ dn.fn = "div_norm_2d"
  /\ ~dn.built
  /\ LET k == DivNorm2dKernels(dn.sum_window, dn.sup_window)
     IN  dn' = [fn |-> dn.fn, sum_window |-> dn.sum_window, sup_window |-> dn.sup_window,
                built |-> TRUE, w_sum |-> k.w_sum, w_sup |-> k.w_sup]
  /\ UNCHANGED <<varsBN, varsPS>>

DivNorm1d ==
  /\ dn.fn = "div_norm_1d"
  /\ ~dn.built
  /\ LET k == DivNorm1dKernels(dn.sum_window[1], dn.sup_window[1])
     IN  dn' = [fn |-> dn.fn, sum_window |-> dn.sum_window, sup_window |-> dn.sup_window,
                built |-> TRUE, w_sum |-> k.w_sum, w_sup |-> k.w_sup]
  /\ UNCHANGED <<varsBN, varsPS>>

BNIdle ==
  /\ emean = [s \in Sites |-> 0]
  /\ evar = [s \in {"bn"} |-> 0]
  /\ avg_mean = [s \in Sites |-> 0]
  /\ avg_var = [s \in {"bn"} |-> 0]
  /\ gamma = <<>>
  /\ beta = <<>>
  /\ run = Idle
  /\ lastEval = NoEval
  /\ rec = [n |-> 0, nbn |-> 0, allNormed |-> TRUE, mean |-> 0, var |-> 0]

InitDN == BNIdle /\ PSIdle /\ dn \in DNInputs

NextDN == DivNorm2d \/ DivNorm1d

SpecDN == InitDN /\ [][NextDN]_vars

RECURSIVE SumNum(_, _)
\* Sum of the numerators of the weights at positions ps (all share one denominator).
SumNum(w, ps) ==
  IF ps = {} THEN 0
  ELSE LET p == CHOOSE q \in ps : TRUE IN w[p][1] + SumNum(w, ps \ {p})

\* n1/d1 = n2/d2
RatEq(a, b) == a[1] * b[2] = b[1] * a[2]

AllWeights(w, d) == \A p \in DOMAIN w : RatEq(w[p], <<1, d>>)

\* the common denominator of a kernel
Den(w) == (w[CHOOSE p \in DOMAIN w : TRUE])[2]

\* C9: in div_norm_2d every weight of both kernels is 1/area(sum_window), so the
\* suppression kernel sums to area(sup_window)/area(sum_window); in div_norm_1d
\* every weight of a kernel is 1/(its own window length), so each kernel sums to 1.
C9_KernelWeights ==
  /\ (dn.fn = "div_norm_2d" /\ dn.built) =>
       /\ DOMAIN dn.w_sum = Positions(dn.sum_window \o <<1, 1>>)
       /\ DOMAIN dn.w_sup = Positions(dn.sup_window \o <<1, 1>>)
       /\ AllWeights(dn.w_sum, Prod(dn.sum_window))
       /\ AllWeights(dn.w_sup, Prod(dn.sum_window))
       /\ RatEq(<<SumNum(dn.w_sup, DOMAIN dn.w_sup), Den(dn.w_sup)>>,
                <<Prod(dn.sup_window), Prod(dn.sum_window)>>)
  /\ (dn.fn = "div_norm_1d" /\ dn.built) =>
       /\ AllWeights(dn.w_sum, dn.sum_window[1])
       /\ AllWeights(dn.w_sup, dn.sup_window[1])
       /\ RatEq(<<SumNum(dn.w_sum, DOMAIN dn.w_sum), Den(dn.w_sum)>>, <<1, 1>>)
       /\ RatEq(<<SumNum(dn.w_sup, DOMAIN dn.w_sup), Den(dn.w_sup)>>, <<1, 1>>)

\* C9 witness: a 2-D construction whose windows differ in area, so the suppression
\* kernel does not sum to 1.
C9_Witness ==
  /\ dn.fn = "div_norm_2d"
  /\ dn.built
  /\ Prod(dn.sup_window) > Prod(dn.sum_window)

(***************************************************************************)
(* SpecPS: graph construction against the variable store                   *)
(*                                                                         *)
(* A full variable name is the sequence of its scope path and local name.  *)
(* A mapping (init_param) is a set of <<key, value>> pairs.  Initializer    *)
(* parameters are in tenths (stddev 0.1 is 1, factor 1.0 is 10).           *)
(***************************************************************************)
MaxCalls == 2      \* construction calls per behaviour

DefaultMean == 0       \* mean = 0.0
DefaultStddev == 1     \* stddev = 0.1
DefaultFactor == 10    \* factor = 1.0
DefaultVal == 0        \* value = 0.0

Scopes == {"s1", "s2"}
WdVals == {<<>>, <<-1>>, <<0>>, <<1>>}
StackWdVals == {<<>>, <<0>>, <<1>>}
LayerCounts == {1, 2}
Depths == {1, 2}
Methods ==
  {<<>>, <<"truncated_normal">>, <<"uniform_scaling">>, <<"constant">>, <<"xavier">>,
   <<"glorot">>}

Has(m, k) == \E e \in m : e[1] = k
Get(m, k) == (CHOOSE e \in m : e[1] = k)[2]

Raise(e) == [err |-> e]

\* The initializer chosen by init_method, or the error raised while choosing it.
\* init_param is <<>> when the caller passes none (the default None).
Initializer(init_method, init_param) ==
  IF init_method = <<>>
  THEN \* tf.zeros_initializer(shape, dtype=dtype): called here, so it is a
       \* value of the given shape and not an initializer function
       [err |-> "", kind |-> "tensor", name |-> "zeros", args |-> {}]
  ELSE IF init_method[1] = "truncated_normal"
  THEN IF init_param = <<>> THEN Raise("TypeError")
       ELSE [err |-> "", kind |-> "callable", name |-> "truncated_normal",
             args |-> {<<"mean", IF ~Has(init_param[1], "mean") THEN DefaultMean
                                 ELSE Get(init_param[1], "mean")>>,
                       <<"stddev", IF ~Has(init_param[1], "stddev") THEN DefaultStddev
                                   ELSE Get(init_param[1], "stddev")>>}]
  ELSE IF init_method[1] = "uniform_scaling"
  THEN IF init_param = <<>> THEN Raise("TypeError")
       ELSE [err |-> "", kind |-> "callable", name |-> "uniform_unit_scaling",
             args |-> {<<"factor", IF ~Has(init_param[1], "factor") THEN DefaultFactor
                                   ELSE Get(init_param[1], "factor")>>}]
  ELSE IF init_method[1] = "constant"
  THEN IF init_param = <<>> THEN Raise("TypeError")
       ELSE [err |-> "", kind |-> "callable", name |-> "constant",
             args |-> {<<"value", IF ~Has(init_param[1], "val") THEN DefaultVal
                                  ELSE Get(init_param[1], "val")>>}]
  ELSE IF init_method[1] = "xavier"
  THEN [err |-> "", kind |-> "callable", name |-> "xavier", args |-> {}]
  ELSE Raise("InvalidArgument")

\* A mutation of the weight-decay test that also registers a penalty for wd = 0.
RegularizerNonNegative(wd) == IF wd # <<>> /\ wd[1] >= 0 THEN wd ELSE <<>>

\* reg: the L2 penalty coefficient attached to the variable, <<>> for none
Regularizer(wd) == IF wd # <<>> /\ wd[1] > 0 THEN wd ELSE <<>>

\* A mutation of tf.get_variable that hands back an existing variable even
\* when the scope does not reuse.
GetVariableSharing(st, name, shape, initializer, regularizer, reuse) ==
  IF initializer # <<>> /\ initializer[1].kind = "tensor"
  THEN [outcome |-> "ConstantInitializerWithShape", store |-> st]
  ELSE IF name \in DOMAIN st
  THEN IF st[name].shape # shape
       THEN [outcome |-> "ShapeMismatch", store |-> st]
       ELSE [outcome |-> "ok", store |-> st]
  ELSE IF reuse
  THEN [outcome |-> "NotFound", store |-> st]
  ELSE [outcome |-> "ok",
        store |-> st @@ (name :> [shape |-> shape, reg |-> regularizer])]

\* tf.get_variable(name, shape, initializer=..., regularizer=...) in the
\* current scope: a shape together with an initializer that is already a
\* value is rejected; an existing name is an error unless the scope reuses;
\* a missing name is an error when it does; a regularizer is attached only
\* to a variable the call creates.
GetVariable(st, name, shape, initializer, regularizer, reuse) ==
  IF initializer # <<>> /\ initializer[1].kind = "tensor"
  THEN [outcome |-> "ConstantInitializerWithShape", store |-> st]
  ELSE IF name \in DOMAIN st
  THEN IF ~reuse
       THEN [outcome |-> "NamingCollision", store |-> st]
       ELSE IF st[name].shape # shape
       THEN [outcome |-> "ShapeMismatch", store |-> st]
       ELSE [outcome |-> "ok", store |-> st]
  ELSE IF reuse
  THEN [outcome |-> "NotFound", store |-> st]
  ELSE [outcome |-> "ok",
        store |-> st @@ (name :> [shape |-> shape, reg |-> regularizer])]

\* weight_variable called inside the scope `path`
WeightVariable(st, path, reuse, shape, init_method, init_param, wd, name) ==
  LET init == Initializer(init_method, init_param)
  IN  IF init.err # ""
      THEN [outcome |-> init.err, store |-> st, initializer |-> <<>>]
      ELSE LET got == GetVariable(st, path \o <<name>>, shape, <<init>>,
                                  Regularizer(wd), reuse)
           IN  [outcome |-> got.outcome, store |-> got.store, initializer |-> <<init>>]

LayerScope(ii) == IF ii = 0 THEN "layer_0" ELSE IF ii = 1 THEN "layer_1" ELSE "layer_2"

\* A mutation of the bias declaration that passes the caller's wd on.
BiasWdInherited(wd) == wd

\* The wd given to a bias declaration: none ("wd=wd" is commented out).
BiasWd(wd) == <<>>

\* One layer's declarations, shared by cnn and mlp: w with the chosen
\* initializer and the caller's wd, then b when add_bias.
\* a: the call's arguments; wshape, bshape: the shapes of w and b.
DeclareLayer(st, a, ii, wshape, bshape) ==
  IF a.init_std = <<>>
  THEN [outcome |-> "TypeError", store |-> st]        \* init_std[ii] of None
  ELSE
    LET path   == <<a.scope, LayerScope(ii)>>
        method == IF a.init_method # <<>> /\ a.init_method[1][ii + 1] # <<>>
                  THEN a.init_method[1][ii + 1]
                  ELSE <<"truncated_normal">>
        w == WeightVariable(st, path, a.reuse, wshape, method,
                            <<{<<"mean", 0>>, <<"stddev", a.init_std[1][ii + 1]>>}>>,
                            a.wd, "w")
    IN  IF w.outcome # "ok" \/ ~a.add_bias
        THEN [outcome |-> w.outcome, store |-> w.store]
        ELSE LET b == WeightVariable(w.store, path, a.reuse, bshape, <<"constant">>,
                                     <<{<<"val", 0>>}>>, BiasWd(a.wd), "b")
             IN  [outcome |-> b.outcome, store |-> b.store]

RECURSIVE CnnLayers(_, _, _)
\* the loop of cnn from layer ii on: the first error ends the call
CnnLayers(st, a, ii) ==
  IF ii = Len(a.filter_size) THEN [outcome |-> "ok", store |-> st]
  ELSE LET l == DeclareLayer(st, a, ii, a.filter_size[ii + 1], <<a.filter_size[ii + 1][4]>>)
       IN  IF l.outcome # "ok" THEN l ELSE CnnLayers(l.store, a, ii + 1)

Cnn(st, a) == CnnLayers(st, a, 0)

RECURSIVE MlpLayers(_, _, _)
\* the loop of mlp from layer ii on
MlpLayers(st, a, ii) ==
  IF ii = Len(a.dims) - 1 THEN [outcome |-> "ok", store |-> st]
  ELSE LET l == DeclareLayer(st, a, ii, <<a.dims[ii + 1], a.dims[ii + 2]>>, <<a.dims[ii + 2]>>)
       IN  IF l.outcome # "ok" THEN l ELSE MlpLayers(l.store, a, ii + 1)

Mlp(st, a) == MlpLayers(st, a, 0)

\* The variables of batch_norm: ema_mean, then ema_var, both [n_out], no
\* initializer given.
BatchNormVariables(st, scope, reuse, n_out) ==
  LET m == GetVariable(st, <<scope, "ema_mean">>, <<n_out>>, <<>>, <<>>, reuse)
  IN  IF m.outcome # "ok" THEN m
      ELSE GetVariable(m.store, <<scope, "ema_var">>, <<n_out>>, <<>>, <<>>, reuse)

\* The variable of batch_norm_mean_only: ema_mean.
BatchNormMeanOnlyVariables(st, scope, reuse, n_out) ==
  GetVariable(st, <<scope, "ema_mean">>, <<n_out>>, <<>>, <<>>, reuse)

\* ---- call arguments tried ----
FilterSizes == {[ii \in 1..n |-> <<1, 1, ii, ii + 1>>] : n \in LayerCounts}
DimsLists == {[ii \in 1..(n + 1) |-> ii] : n \in LayerCounts}

\* init_std and init_method of a cnn / mlp call of n layers
StackInits(n) ==
  {[init_std |-> <<[ii \in 1..n |-> 1]>>, init_method |-> <<>>],
   [init_std |-> <<[ii \in 1..n |-> 1]>>,
    init_method |-> <<[ii \in 1..n |-> IF ii = n THEN <<"glorot">> ELSE <<"xavier">>]>>],
   [init_std |-> <<>>, init_method |-> <<>>]}

\* init_param of a direct weight_variable call: not passed, empty, one key, all keys
InitParams ==
  {<<>>, <<{}>>, <<{<<"mean", 5>>}>>,
   <<{<<"mean", 5>>, <<"stddev", 7>>, <<"factor", 3>>, <<"val", 2>>}>>}

KeyedMethods == {<<"truncated_normal">>, <<"uniform_scaling">>, <<"constant">>}

\* init_method with init_param; a method that reads no key is tried without one
InitCases ==
  {[init_method |-> m, init_param |-> ip] : m \in KeyedMethods, ip \in InitParams}
  \cup {[init_method |-> m, init_param |-> <<>>] : m \in Methods \ KeyedMethods}

\* Direct weight_variable calls declare a variable of layer_1 of a scope.
DirectShape(name) == IF name = "w" THEN <<1, 1, 2, 3>> ELSE <<3>>

\* history kept with each call: what it added and whether it left the rest alone
Effect(st) ==
  [declared |-> DOMAIN st \ DOMAIN store,
   kept |-> \A n \in DOMAIN store : n \in DOMAIN st /\ st[n] = store[n]]

\* weight_variable called directly, in a scope that does not reuse
CallWeightVariable(scope, init_method, init_param, wd, name) ==
  /\ calls < MaxCalls
  /\ LET full == <<scope, "layer_1", name>>
         r == WeightVariable(store, <<scope, "layer_1">>, FALSE, DirectShape(name),
                             init_method, init_param, wd, name)
     IN  /\ store' = r.store
         /\ last' = [fn |-> "weight_variable", outcome |-> r.outcome, name |-> full,
                     shape |-> DirectShape(name), init_method |-> init_method,
                     init_param |-> init_param, wd |-> wd, reuse |-> FALSE,
                     initializer |-> r.initializer, dup |-> full \in DOMAIN store,
                     effect |-> Effect(r.store)]
  /\ calls' = calls + 1
  /\ UNCHANGED <<shadows, varsBN, varsDN>>

CallCnn(a) ==
  /\ calls < MaxCalls
  /\ LET r == Cnn(store, a)
     IN  /\ store' = r.store
         /\ last' = [fn |-> "cnn", outcome |-> r.outcome, args |-> a,
                     layers |-> Len(a.filter_size), reuse |-> a.reuse,
                     dup |-> <<a.scope, "layer_0", "w">> \in DOMAIN store,
                     effect |-> Effect(r.store)]
  /\ calls' = calls + 1
  /\ UNCHANGED <<shadows, varsBN, varsDN>>

CallMlp(a) ==
  /\ calls < MaxCalls
  /\ LET r == Mlp(store, a)
     IN  /\ store' = r.store
         /\ last' = [fn |-> "mlp", outcome |-> r.outcome, args |-> a,
                     layers |-> Len(a.dims) - 1, reuse |-> a.reuse,
                     dup |-> <<a.scope, "layer_0", "w">> \in DOMAIN store,
                     effect |-> Effect(r.store)]
  /\ calls' = calls + 1
  /\ UNCHANGED <<shadows, varsBN, varsDN>>

\* Building a batch_norm site: its variables, and in training mode the two
\* shadow variables ema.apply creates.
CallBatchNorm(scope, reuse, is_training, n_out) ==
  /\ calls < MaxCalls
  /\ LET r == BatchNormVariables(store, scope, reuse, n_out)
     IN  /\ store' = r.store
         /\ shadows' = IF r.outcome = "ok" /\ is_training THEN shadows + 2 ELSE shadows
         /\ last' = [fn |-> "batch_norm", outcome |-> r.outcome, scope |-> scope,
                     reuse |-> reuse, is_training |-> is_training, n_out |-> n_out,
                     dup |-> <<scope, "ema_mean">> \in DOMAIN store,
                     effect |-> Effect(r.store)]
  /\ calls' = calls + 1
  /\ UNCHANGED <<varsBN, varsDN>>

\* Building a batch_norm_mean_only site.
CallBatchNormMeanOnly(scope, reuse, is_training, n_out) ==
  /\ calls < MaxCalls
  /\ LET r == BatchNormMeanOnlyVariables(store, scope, reuse, n_out)
     IN  /\ store' = r.store
         /\ shadows' = IF r.outcome = "ok" /\ is_training THEN shadows + 1 ELSE shadows
         /\ last' = [fn |-> "batch_norm_mean_only", outcome |-> r.outcome, scope |-> scope,
                     reuse |-> reuse, is_training |-> is_training, n_out |-> n_out,
                     dup |-> <<scope, "ema_mean">> \in DOMAIN store,
                     effect |-> Effect(r.store)]
  /\ calls' = calls + 1
  /\ UNCHANGED <<varsBN, varsDN>>

InitPS == BNIdle /\ PSIdle /\ DNIdle

NextPS ==
  \/ \E scope \in Scopes, i \in InitCases, wd \in WdVals :
       CallWeightVariable(scope, i.init_method, i.init_param, wd, "w")
  \/ \E scope \in Scopes, fs \in FilterSizes, add_bias \in BOOLEAN, wd \in StackWdVals :
       \E i \in StackInits(Len(fs)) :
         CallCnn([scope |-> scope, reuse |-> FALSE, filter_size |-> fs,
                  add_bias |-> add_bias, wd |-> wd, init_std |-> i.init_std,
                  init_method |-> i.init_method])
  \/ \E scope \in Scopes, dims \in DimsLists, add_bias \in BOOLEAN, wd \in StackWdVals :
       \E i \in StackInits(Len(dims) - 1) :
         CallMlp([scope |-> scope, reuse |-> FALSE, dims |-> dims,
                  add_bias |-> add_bias, wd |-> wd, init_std |-> i.init_std,
                  init_method |-> i.init_method])
  \/ \E scope \in Scopes, reuse \in BOOLEAN, is_training \in BOOLEAN, n_out \in Depths :
       CallBatchNorm(scope, reuse, is_training, n_out)
  \/ \E scope \in Scopes, reuse \in BOOLEAN, is_training \in BOOLEAN, n_out \in Depths :
       CallBatchNormMeanOnly(scope, reuse, is_training, n_out)

SpecPS == InitPS /\ [][NextPS]_vars

(***************************************************************************)
(* Claims about parameter declaration                                      *)
(***************************************************************************)
Recognized == Methods \ {<<"glorot">>}
ArgumentErrors == {"InvalidArgument", "TypeError", "ConstantInitializerWithShape"}

\* C5: a weight_variable call for a fresh name returns a parameter of exactly
\* the requested shape for every recognized method (unset, truncated_normal,
\* uniform_scaling, constant, xavier); for any other method it fails with the
\* invalid-argument error and the declared parameters are unchanged.
C5_DeclareParameter ==
  (/\ last.fn = "weight_variable"
   /\ ~last.dup
   /\ (last.init_method \in KeyedMethods => last.init_param # <<>>))
    => IF last.init_method \in Recognized
       THEN /\ last.outcome = "ok"
            /\ last.name \in DOMAIN store
            /\ store[last.name].shape = last.shape
       ELSE /\ last.outcome = "InvalidArgument"
            /\ last.effect.declared = {}
            /\ last.effect.kept

Expected(init_param, key, default) ==
  IF init_param # <<>> /\ Has(init_param[1], key) THEN Get(init_param[1], key) ELSE default

\* C6: for truncated_normal, uniform_scaling and constant, a weight_variable
\* call whose init_param lacks the method's keys (a key is missing, the mapping
\* is empty, or none is passed) succeeds and uses mean 0.0, stddev 0.1,
\* factor 1.0, val 0.0.
C6_MissingKeysDefault ==
  (last.fn = "weight_variable" /\ ~last.dup /\ last.init_method \in KeyedMethods)
    => /\ last.outcome = "ok"
       /\ last.initializer # <<>>
       /\ last.initializer[1].args =
            CASE last.init_method = <<"truncated_normal">> ->
                   {<<"mean", Expected(last.init_param, "mean", 0)>>,
                    <<"stddev", Expected(last.init_param, "stddev", 1)>>}
              [] last.init_method = <<"uniform_scaling">> ->
                   {<<"factor", Expected(last.init_param, "factor", 10)>>}
              [] last.init_method = <<"constant">> ->
                   {<<"value", Expected(last.init_param, "val", 0)>>}

\* C7: a parameter declared by weight_variable carries an L2 penalty, with
\* coefficient wd, exactly when wd is given and > 0; whatever wd is, a call
\* with valid arguments for a fresh name succeeds and declares the parameter.
C7_WeightDecayPenalty ==
  last.fn = "weight_variable"
    => /\ \A n \in last.effect.declared :
            /\ (store[n].reg # <<>>) <=> (last.wd # <<>> /\ last.wd[1] > 0)
            /\ store[n].reg # <<>> => store[n].reg = last.wd
       /\ (/\ ~last.dup
           /\ last.init_method \in Recognized \ {<<>>}
           /\ (last.init_method \in KeyedMethods => last.init_param # <<>>))
            => (last.outcome = "ok" /\ last.effect.declared = {last.name})

\* C7 witness: a parameter declared with wd = 0 carries no penalty while
\* another one, declared with wd > 0, does.
C7_Witness ==
  /\ last.fn = "weight_variable"
  /\ last.outcome = "ok"
  /\ last.wd = <<0>>
  /\ store[last.name].reg = <<>>
  /\ \E n \in DOMAIN store : store[n].reg = <<1>>

\* C8: a call (weight_variable, cnn, mlp, batch_norm, batch_norm_mean_only)
\* whose first declaration targets a name already declared, in a scope that
\* does not reuse, fails, with a naming collision unless its own arguments
\* are rejected first, and declares nothing; no call ever changes a
\* parameter that already exists.
C8_NamingCollision ==
  last.fn # "none"
    => /\ last.effect.kept
       /\ (last.dup /\ ~last.reuse)
            => /\ last.outcome # "ok"
               /\ last.effect.declared = {}
               /\ last.outcome \notin ArgumentErrors => last.outcome = "NamingCollision"

\* C8 witness: cnn called a second time with the same scope failed with a
\* naming collision.
C8_Witness ==
  /\ last.fn = "cnn"
  /\ last.dup
  /\ last.outcome = "NamingCollision"
  /\ \E n \in DOMAIN store : n[1] = last.args.scope /\ n[3] = "b"

LayerNames(scope, layers, leaf) == {<<scope, LayerScope(ii), leaf>> : ii \in 0..(layers - 1)}

\* C10: every w a cnn or mlp call declares gets the caller's wd, every b it
\* declares gets no weight decay and so no L2 penalty, and b is declared only
\* when add_bias; a successful call declares w for every layer index.
C10_BiasNoDecay ==
  last.fn \in {"cnn", "mlp"}
    => /\ \A n \in last.effect.declared :
            /\ n[3] = "w" =>
                 store[n].reg = IF last.args.wd # <<>> /\ last.args.wd[1] > 0
                                THEN last.args.wd ELSE <<>>
            /\ n[3] = "b" => (store[n].reg = <<>> /\ last.args.add_bias)
       /\ last.outcome = "ok" =>
            last.effect.declared =
              LayerNames(last.args.scope, last.layers, "w")
                \cup (IF last.args.add_bias
                      THEN LayerNames(last.args.scope, last.layers, "b") ELSE {})

\* C10 witness: a two-layer cnn call with biases and wd > 0 succeeded.
C10_Witness ==
  /\ last.fn = "cnn"
  /\ last.outcome = "ok"
  /\ last.layers = 2
  /\ last.args.add_bias
  /\ last.args.wd = <<1>>

====
